---- MODULE Spec2Model ----
(***************************************************************************)
(* A model of lightnn's convolution layer (lightnn/layers/ConvLayer.py):   *)
(* the Filter parameter container, the numeric kernel routines (_padding,  *)
(* _conv, __expand_sensitive_map) and ConvLayer's forward / backward /     *)
(* update.                                                                 *)
(*                                                                         *)
(* An ndarray is a record [shape, data]: shape is the tuple of dimension   *)
(* sizes (its length is ndim) and data maps every 0-based index tuple to   *)
(* the cell's value.  Values are integers.                                 *)
(***************************************************************************)
EXTENDS Integers, Sequences, FiniteSets, TLC

\* ------------------------------------------------------------------------
\* Bounds of the model.
\* ------------------------------------------------------------------------
MaxIn == 3
MaxFilter == 2
MaxChannel == 2
MaxPad == 1
MaxStride == 2
MaxLr == 2
MaxCalls == 4
MaxSeed == 2

\* ------------------------------------------------------------------------
\* numpy: the operations of ndarrays the layer uses.
\* ------------------------------------------------------------------------
Max(a, b) == IF a >= b THEN a ELSE b

Min(a, b) == IF a <= b THEN a ELSE b

\* The index tuples of an array of the given shape (ndim 1 to 4).
Idx(shape) ==
  CASE Len(shape) = 1 -> {<<i>> : i \in 0..(shape[1] - 1)}
    [] Len(shape) = 2 -> (0..(shape[1] - 1)) \X (0..(shape[2] - 1))
    [] Len(shape) = 3 ->
         (0..(shape[1] - 1)) \X (0..(shape[2] - 1)) \X (0..(shape[3] - 1))
    [] Len(shape) = 4 ->
         (0..(shape[1] - 1)) \X (0..(shape[2] - 1)) \X (0..(shape[3] - 1))
           \X (0..(shape[4] - 1))

ndim(x) == Len(x.shape)

np_zeros(shape) == [shape |-> shape, data |-> [i \in Idx(shape) |-> 0]]

\* x[:,:,None] of a 2-D array.
AddChannelAxis(x) ==
  LET s == <<x.shape[1], x.shape[2], 1>>
  IN  [shape |-> s, data |-> [i \in Idx(s) |-> x.data[<<i[1], i[2]>>]]]

\* x[:,:,c] of a 3-D array.
Plane(x, c) ==
  LET s == <<x.shape[1], x.shape[2]>>
  IN  [shape |-> s, data |-> [i \in Idx(s) |-> x.data[<<i[1], i[2], c>>]]]

\* x after the assignment through the view x[:,:,c] of the 2-D array p.
WithPlane(x, c, p) ==
  [x EXCEPT !.data =
     [i \in Idx(x.shape) |-> IF i[3] = c THEN p.data[<<i[1], i[2]>>]
                                         ELSE x.data[i]]]

\* The sum of the numbers of a sequence.
RECURSIVE SumSeq(_)
SumSeq(s) == IF Len(s) = 0 THEN 0 ELSE Head(s) + SumSeq(Tail(s))

\* np.sum of a 2-D array
np_sum2(x) ==
  SumSeq([i \in 1..x.shape[1] |->
            SumSeq([j \in 1..x.shape[2] |-> x.data[<<i - 1, j - 1>>]])])

\* np.rot90(p, 2) of a 2-D array: both axes reversed.
np_rot90_2(p) ==
  [shape |-> p.shape,
   data |-> [i \in Idx(p.shape) |->
               p.data[<<p.shape[1] - 1 - i[1], p.shape[2] - 1 - i[2]>>]]]

\* x + y, x - y and x * y cell by cell, for arrays of one shape.
np_add(x, y) ==
  [shape |-> x.shape, data |-> [i \in Idx(x.shape) |-> x.data[i] + y.data[i]]]

np_sub(x, y) ==
  [shape |-> x.shape, data |-> [i \in Idx(x.shape) |-> x.data[i] - y.data[i]]]

np_mul(x, y) ==
  [shape |-> x.shape, data |-> [i \in Idx(x.shape) |-> x.data[i] * y.data[i]]]

Scale(x, k) == [shape |-> x.shape, data |-> [i \in Idx(x.shape) |-> x.data[i] * k]]

\* Whether numpy can carry out the in-place x += y (x *= y): y broadcasts to
\* the shape of x (arrays of one ndim).
InPlaceBroadcasts(x, y) ==
  /\ ndim(x) = ndim(y)
  /\ \A d \in 1..ndim(x) : y.shape[d] = x.shape[d] \/ y.shape[d] = 1

\* What a call gives: the value it returns, or the exception it raises.
Returned(v) == [raised |-> "", value |-> v]

Raised(e, v) == [raised |-> e, value |-> v]

\* y as numpy broadcasts it to the shape of a 3-D array.
BroadcastTo(y, shape) ==
  [shape |-> shape,
   data |-> [i \in Idx(shape) |->
               y.data[<<IF y.shape[1] = 1 THEN 0 ELSE i[1],
                        IF y.shape[2] = 1 THEN 0 ELSE i[2],
                        IF y.shape[3] = 1 THEN 0 ELSE i[3]>>]]]

\* ------------------------------------------------------------------------
\* The kernel routines of ConvLayer.
\* ------------------------------------------------------------------------
\* _calc_output_size with the padding counted on one side only.
_calc_output_size_onepad(input_len, filter_len, stride, zero_padding) ==
  ((input_len + zero_padding - filter_len) \div stride) + 1

_calc_output_size(input_len, filter_len, stride, zero_padding) ==
  ((input_len + 2 * zero_padding - filter_len) \div stride) + 1

\* Padded with the height's padding used as the column offset.
Padded_rowoffset(x, zero_padding) ==
  LET input_height == x.shape[1]
      input_width == x.shape[2]
      s == <<input_height + 2 * zero_padding[1],
             input_width + 2 * zero_padding[2], x.shape[3]>>
  IN  [shape |-> s,
       data |-> [i \in Idx(s) |->
                   IF /\ zero_padding[1] <= i[1]
                      /\ i[1] < input_height + zero_padding[1]
                      /\ zero_padding[1] <= i[2]
                      /\ i[2] < Min(input_width + zero_padding[1], s[2])
                   THEN x.data[<<i[1] - zero_padding[1],
                                 i[2] - zero_padding[1], i[3]>>]
                   ELSE 0]]

\* The array _padding builds for a 3-D x (lines 176 to 181): zeros, with x
\* assigned to the slice that starts at (zero_padding[0], zero_padding[1]).
Padded(x, zero_padding) ==
  LET input_height == x.shape[1]
      input_width == x.shape[2]
      input_channel == x.shape[3]
      s == <<input_height + 2 * zero_padding[1],
             input_width + 2 * zero_padding[2], input_channel>>
  IN  [shape |-> s,
       data |-> [i \in Idx(s) |->
                   IF /\ zero_padding[1] <= i[1]
                      /\ i[1] < input_height + zero_padding[1]
                      /\ zero_padding[2] <= i[2]
                      /\ i[2] < input_width + zero_padding[2]
                   THEN x.data[<<i[1] - zero_padding[1],
                                 i[2] - zero_padding[2], i[3]>>]
                   ELSE 0]]

\* _padding without the rank check: a tensor it cannot pad is returned as it
\* is.
_padding_unchecked(inputs, zero_padding) ==
  IF zero_padding = <<0, 0>> \/ ndim(inputs) \notin {2, 3}
  THEN Returned(inputs)
  ELSE Returned(Padded(IF ndim(inputs) = 2 THEN AddChannelAxis(inputs)
                                           ELSE inputs, zero_padding))

_padding(inputs, zero_padding) ==
  IF zero_padding = <<0, 0>>
  THEN Returned(inputs)
  ELSE LET x == IF ndim(inputs) = 2 THEN AddChannelAxis(inputs) ELSE inputs
       IN  IF ndim(x) = 3
           THEN Returned(Padded(x, zero_padding))
           ELSE Raised("ValueError", inputs)

\* np.sum(inputs[bh:eh, bw:ew, :] * filter_W) of 3-D arrays, the window
\* starting at (bh, bw); the product broadcasts a channel axis of length 1.
WindowSum(inputs, filter_W, bh, bw) ==
  LET channels == Max(inputs.shape[3], filter_W.shape[3])
  IN  SumSeq([a \in 1..filter_W.shape[1] |->
        SumSeq([b \in 1..filter_W.shape[2] |->
          SumSeq([c \in 1..channels |->
            inputs.data[<<bh + a - 1, bw + b - 1,
                          IF inputs.shape[3] = 1 THEN 0 ELSE c - 1>>]
            * filter_W.data[<<a - 1, b - 1,
                              IF filter_W.shape[3] = 1 THEN 0 ELSE c - 1>>]])])])

\* ConvWrites with the break taken one window early (>= for >).
ConvWrites_early(i_height, i_width, f_height, f_width, stride, idx_height, idx_width) ==
  /\ f_height + idx_height * stride[1] < i_height
  /\ f_width + idx_width * stride[2] < i_width

\* Whether the loops of _conv reach the assignment for cell (idx_height,
\* idx_width): there eh = f_height + idx_height * stride_height and
\* ew = f_width + idx_width * stride_width, and the inner loop breaks at the
\* first cell with eh > i_height or ew > i_width.
ConvWrites(i_height, i_width, f_height, f_width, stride, idx_height, idx_width) ==
  /\ f_height + idx_height * stride[1] <= i_height
  /\ f_width + idx_width * stride[2] <= i_width

\* The loops of _conv (lines 200 to 216) over 3-D x and w: the buffer outputs
\* after them, or the ValueError of the first product that cannot broadcast.
ConvLoops(x, w, outputs, filter_b, stride) ==
  LET i_height == x.shape[1]
      i_width == x.shape[2]
      f_height == w.shape[1]
      f_width == w.shape[2]
      Written(i) == ConvWrites(i_height, i_width, f_height, f_width,
                               stride, i[1], i[2])
      broadcasts == \/ x.shape[3] = w.shape[3]
                    \/ x.shape[3] = 1
                    \/ w.shape[3] = 1
  IN  IF ~broadcasts /\ (\E i \in Idx(outputs.shape) : Written(i))
      THEN Raised("ValueError", outputs)
      ELSE Returned(
             [shape |-> outputs.shape,
              data |-> [i \in Idx(outputs.shape) |->
                IF Written(i)
                THEN WindowSum(x, w, i[1] * stride[1], i[2] * stride[2])
                     + filter_b
                ELSE outputs.data[i]]])

\* _conv writes into the buffer outputs: the value is the buffer after the
\* call.
_conv(inputs, filter_W, outputs, filter_b, stride) ==
  IF ndim(inputs) \notin {2, 3} \/ ndim(filter_W) \notin {2, 3}
  THEN Raised("ValueError", outputs)
  ELSE ConvLoops(IF ndim(inputs) = 2 THEN AddChannelAxis(inputs) ELSE inputs,
                 IF ndim(filter_W) = 2 THEN AddChannelAxis(filter_W)
                                       ELSE filter_W,
                 outputs, filter_b, stride)

\* expand_sensitive_map with the expanded size taken as size * stride.
expand_sensitive_map_oversized(pre_delta_map, stride) ==
  LET s == <<pre_delta_map.shape[1] * stride[1],
             pre_delta_map.shape[2] * stride[2], pre_delta_map.shape[3]>>
  IN  [shape |-> s,
       data |-> [i \in Idx(s) |->
                   IF i[1] % stride[1] = 0 /\ i[2] % stride[2] = 0
                   THEN pre_delta_map.data[<<i[1] \div stride[1],
                                             i[2] \div stride[2], i[3]>>]
                   ELSE 0]]

expand_sensitive_map(pre_delta_map, stride) ==
  LET height == pre_delta_map.shape[1]
      width == pre_delta_map.shape[2]
      depth == pre_delta_map.shape[3]
      s == <<(height - 1) * stride[1] + 1, (width - 1) * stride[2] + 1, depth>>
  IN  [shape |-> s,
       data |-> [i \in Idx(s) |->
                   IF i[1] % stride[1] = 0 /\ i[2] % stride[2] = 0
                   THEN pre_delta_map.data[<<i[1] \div stride[1],
                                             i[2] \div stride[2], i[3]>>]
                   ELSE 0]]

\* ------------------------------------------------------------------------
\* The collaborators the layer is given: the dimension check, the weight
\* initializer and the activator (Relu, the constructor's default).
\* ------------------------------------------------------------------------
\* The test tensor number seed of a shape: seed 0 is all ones, the others
\* mix negative, zero and positive cells.
Pattern(shape, seed) ==
  [shape |-> shape,
   data |-> [i \in Idx(shape) |->
               IF seed = 0 THEN 1
               ELSE LET n == Len(shape)
                        lin == SumSeq([d \in 1..n |-> (2 * d - 1) * i[d]])
                    IN  (((lin + 1) * seed + lin \div 2) % 5) - 2]]

\* _check_convolution_layer accepts the parameters: positive sizes, a stride
\* of at least 1 on each axis, and a filter no larger than the padded input.
ValidGeometry(input_height, input_width, input_channel, filter_height, filter_width, filter_num, zero_padding, stride) ==
  /\ input_height >= 1 /\ input_width >= 1 /\ input_channel >= 1
  /\ filter_height >= 1 /\ filter_width >= 1 /\ filter_num >= 1
  /\ zero_padding[1] >= 0 /\ zero_padding[2] >= 0
  /\ stride[1] >= 1 /\ stride[2] >= 1
  /\ filter_height <= input_height + 2 * zero_padding[1]
  /\ filter_width <= input_width + 2 * zero_padding[2]

\* initializer([filter_height, filter_width, filter_channel]) for the k-th
\* filter built.
initializer(shape, k) == Pattern(shape, k)

\* activator.forward: Relu, cell by cell.
activator_forward(x) ==
  [shape |-> x.shape, data |-> [i \in Idx(x.shape) |-> Max(x.data[i], 0)]]

\* activator.backward: Relu's derivative, cell by cell.
activator_backward(x) ==
  [shape |-> x.shape,
   data |-> [i \in Idx(x.shape) |-> IF x.data[i] > 0 THEN 1 ELSE 0]]

\* ------------------------------------------------------------------------
\* Filter
\* ------------------------------------------------------------------------
Filter_init(filter_height, filter_width, filter_channel, k) ==
  [W |-> initializer(<<filter_height, filter_width, filter_channel>>, k),
   b |-> 0,
   delta_W |-> np_zeros(<<filter_height, filter_width, filter_channel>>),
   delta_b |-> 0]

\* Filter.update stepping up the gradient.
Filter_update_ascent(f) ==
  [f EXCEPT !.W = np_add(f.W, f.delta_W),
            !.b = f.b + f.delta_b]

Filter_update(f) ==
  [f EXCEPT !.W = np_sub(f.W, f.delta_W),
            !.b = f.b - f.delta_b]

\* ------------------------------------------------------------------------
\* ConvLayer: the state of one layer.
\* ------------------------------------------------------------------------
VARIABLES
  layer,         \* the attributes set once by __init__: sizes, padding, stride, lr
  filters,       \* self.filters, a sequence of Filter
  output,        \* self.output
  input,         \* self.input (NoAttr until the first forward)
  padded_input,  \* self.padded_input (NoAttr until the first forward)
  delta,         \* self.__delta
  call,          \* the last call made: [op, raised, value]
  ncalls         \* how many calls were made

vars == <<layer, filters, output, input, padded_input, delta, call, ncalls>>

\* An attribute not set yet, and the value of a call that returns None.
NoAttr == [shape |-> <<>>, data |-> <<>>]

None == NoAttr

HasAttr(a) == a.shape # <<>>

\* __init__: the attributes of a layer just built.
ConvLayer_init(input_height, input_width, input_channel, filter_height, filter_width, filter_num, zero_padding, stride, lr) ==
  LET output_height == _calc_output_size(input_height, filter_height,
                                         stride[1], zero_padding[1])
      output_width == _calc_output_size(input_width, filter_width,
                                        stride[2], zero_padding[2])
  IN  [layer |-> [input_height |-> input_height,
                  input_width |-> input_width,
                  input_channel |-> input_channel,
                  filter_height |-> filter_height,
                  filter_width |-> filter_width,
                  filter_num |-> filter_num,
                  zero_padding |-> zero_padding,
                  output_height |-> output_height,
                  output_width |-> output_width,
                  output_channel |-> filter_num,
                  stride |-> stride,
                  lr |-> lr],
       filters |-> [k \in 1..filter_num |->
                      Filter_init(filter_height, filter_width, input_channel, k)],
       output |-> np_zeros(<<output_height, output_width, filter_num>>),
       delta |-> np_zeros(<<input_width, input_height, input_channel>>)]

\* forward's loop over the filters, from filter o_c (1-based) on: each _conv
\* writes through the view self.output[:,:,o_c].
RECURSIVE ForwardFilters(_, _, _, _, _)
ForwardFilters(fs, padded, out, stride, o_c) ==
  IF o_c > Len(fs) THEN out
  ELSE LET r == _conv(padded, fs[o_c].W, Plane(out, o_c - 1), fs[o_c].b, stride)
       IN  ForwardFilters(fs, padded, WithPlane(out, o_c - 1, r.value),
                          stride, o_c + 1)

\* forward(input) for an input of the layer's shape: the attributes it leaves
\* and the value it returns.  self.input is set first; a _padding that raises
\* leaves the other attributes as they were.
ConvLayer_forward(l, fs, out, old_padded, x) ==
  LET padded == _padding(x, l.zero_padding)
  IN  IF padded.raised # ""
      THEN [input |-> x, padded_input |-> old_padded, output |-> out,
            raised |-> padded.raised, value |-> None]
      ELSE LET o == activator_forward(
                      ForwardFilters(fs, padded.value, out, l.stride, 1))
           IN  [input |-> x, padded_input |-> padded.value, output |-> o,
                raised |-> "", value |-> o]

\* backward's zero_padding for the expanded map (lines 139 to 143).
BackwardPadding(l, expanded) ==
  <<Max(0, (l.input_height + l.filter_height - expanded.shape[1] - 1) \div 2),
    Max(0, (l.input_width + l.filter_width - expanded.shape[2] - 1) \div 2)>>

\* rot_weights of backward: every channel's plane of W rotated by 180 degrees.
RotWeights(W) ==
  LET planes == [c \in 1..W.shape[3] |-> np_rot90_2(Plane(W, c - 1))]
  IN  [shape |-> W.shape,
       data |-> [i \in Idx(W.shape) |-> planes[i[3] + 1].data[<<i[1], i[2]>>]]]

\* delta_a of backward for filter i (0-based): one _conv per input channel
\* into a buffer of zeros.
DeltaA(l, padded_delta_map, rot_weights, i) ==
  LET zeros == np_zeros(<<l.input_height, l.input_width, l.input_channel>>)
      planes == [c \in 1..l.input_channel |->
                   _conv(Plane(padded_delta_map, i), Plane(rot_weights, c - 1),
                         Plane(zeros, c - 1), 0, <<1, 1>>).value]
  IN  [shape |-> zeros.shape,
       data |-> [j \in Idx(zeros.shape) |-> planes[j[3] + 1].data[<<j[1], j[2]>>]]]

\* filter.delta_W after backward's loop over the input channels for filter i
\* (0-based): one _conv per channel through the view filter.delta_W[:,:,i_c].
DeltaW(l, padded, expanded, delta_W, i) ==
  LET planes == [c \in 1..l.input_channel |->
                   _conv(Plane(padded, c - 1), Plane(expanded, i),
                         Plane(delta_W, c - 1), 0, <<1, 1>>).value]
  IN  [shape |-> delta_W.shape,
       data |-> [j \in Idx(delta_W.shape) |->
                   planes[j[3] + 1].data[<<j[1], j[2]>>]]]

\* self.__delta += delta_a (line 159): the buffer after it, or numpy's
\* ValueError when delta_a does not broadcast to the buffer's shape.
AddInPlace(d, delta_a) ==
  IF ~InPlaceBroadcasts(d, delta_a)
  THEN Raised("ValueError", d)
  ELSE Returned(np_add(d, BroadcastTo(delta_a, d.shape)))

\* self.__delta *= self.activator.backward(self.input) (line 161)
MulInPlace(d, x) ==
  LET da == activator_backward(x)
  IN  IF ~InPlaceBroadcasts(d, da)
      THEN Raised("ValueError", d)
      ELSE Returned(np_mul(d, BroadcastTo(da, d.shape)))

\* backward's loop over the filters, from filter k (1-based) on.  The loop
\* ends at the first self.__delta += delta_a that raises, with the gradients
\* of filter k already written.
RECURSIVE BackwardFilters(_, _, _, _, _, _, _)
BackwardFilters(l, fs, d, padded, expanded, padded_delta_map, k) ==
  IF k > Len(fs) THEN [filters |-> fs, delta |-> d, raised |-> ""]
  ELSE LET delta_a == DeltaA(l, padded_delta_map, RotWeights(fs[k].W), k - 1)
           f == [fs[k] EXCEPT
                   !.delta_W = DeltaW(l, padded, expanded, fs[k].delta_W, k - 1),
                   !.delta_b = np_sum2(Plane(expanded, k - 1))]
           fs2 == [fs EXCEPT ![k] = f]
           sum == AddInPlace(d, delta_a)
       IN  IF sum.raised # ""
           THEN [filters |-> fs2, delta |-> d, raised |-> sum.raised]
           ELSE BackwardFilters(l, fs2, sum.value, padded, expanded,
                                padded_delta_map, k + 1)

\* backward(pre_delta_map): the attributes it leaves and the value it
\* returns.  Before the first forward the layer has no padded_input and the
\* first filter's weight-gradient _conv raises AttributeError, nothing
\* changed.
ConvLayer_backward(l, fs, d, x, padded, pre_delta_map) ==
  LET expanded == expand_sensitive_map(pre_delta_map, l.stride)
      padded_delta_map == _padding(expanded, BackwardPadding(l, expanded)).value
  IN  IF ~HasAttr(padded)
      THEN [filters |-> fs, delta |-> d, raised |-> "AttributeError",
            value |-> None]
      ELSE LET r == BackwardFilters(l, fs, d, padded, expanded,
                                    padded_delta_map, 1)
               prod == MulInPlace(r.delta, x)
           IN  IF r.raised # ""
               THEN [filters |-> r.filters, delta |-> r.delta,
                     raised |-> r.raised, value |-> None]
               ELSE [filters |-> r.filters, delta |-> prod.value,
                     raised |-> prod.raised,
                     value |-> IF prod.raised = "" THEN prod.value ELSE None]

\* update(): the filters it leaves.
ConvLayer_update(l, fs) ==
  [k \in 1..Len(fs) |->
     Filter_update([fs[k] EXCEPT !.delta_W = Scale(fs[k].delta_W, l.lr),
                                 !.delta_b = fs[k].delta_b * l.lr])]

\* ------------------------------------------------------------------------
\* The layer as a state machine: construction, then any calls of forward,
\* backward and update.
\* ------------------------------------------------------------------------
Init ==
  \E input_height \in 1..MaxIn, input_width \in 1..MaxIn,
     input_channel \in 1..MaxChannel,
     filter_height \in 1..MaxFilter, filter_width \in 1..MaxFilter,
     filter_num \in 1..MaxChannel,
     zero_padding \in 0..MaxPad, stride \in 1..MaxStride, lr \in 1..MaxLr :
    \* an int zero_padding becomes a pair (lines 84 and 85), and so does an
    \* int stride
    /\ ValidGeometry(input_height, input_width, input_channel, filter_height,
                     filter_width, filter_num,
                     <<zero_padding, zero_padding>>, <<stride, stride>>)
    /\ LET new == ConvLayer_init(input_height, input_width, input_channel,
                                 filter_height, filter_width, filter_num,
                                 <<zero_padding, zero_padding>>,
                                 <<stride, stride>>, lr)
       IN  /\ layer = new.layer
           /\ filters = new.filters
           /\ output = new.output
           /\ delta = new.delta
    /\ input = NoAttr
    /\ padded_input = NoAttr
    /\ call = [op |-> "__init__", args |-> <<>>, raised |-> "", value |-> None]
    /\ ncalls = 0

\* layer.forward(x), x a tensor [input_height, input_width, input_channel]
Forward ==
  /\ ncalls < MaxCalls
  /\ \E seed \in 1..MaxSeed :
       LET x == Pattern(<<layer.input_height, layer.input_width,
                          layer.input_channel>>, seed)
           r == ConvLayer_forward(layer, filters, output, padded_input, x)
       IN  /\ input' = r.input
           /\ padded_input' = r.padded_input
           /\ output' = r.output
           /\ call' = [op |-> "forward", args |-> <<x>>, raised |-> r.raised,
                       value |-> r.value]
  /\ ncalls' = ncalls + 1
  /\ UNCHANGED <<layer, filters, delta>>

\* layer.backward(g), g a tensor [output_height, output_width, filter_num]
Backward ==
  /\ ncalls < MaxCalls
  /\ \E seed \in 1..MaxSeed :
       LET g == Pattern(<<layer.output_height, layer.output_width,
                          layer.filter_num>>, seed)
           r == ConvLayer_backward(layer, filters, delta, input, padded_input, g)
       IN  /\ filters' = r.filters
           /\ delta' = r.delta
           /\ call' = [op |-> "backward", args |-> <<g>>, raised |-> r.raised,
                       value |-> r.value]
  /\ ncalls' = ncalls + 1
  /\ UNCHANGED <<layer, output, input, padded_input>>

\* layer.update()
Update ==
  /\ ncalls < MaxCalls
  /\ filters' = ConvLayer_update(layer, filters)
  /\ call' = [op |-> "update", args |-> <<>>, raised |-> "", value |-> None]
  /\ ncalls' = ncalls + 1
  /\ UNCHANGED <<layer, output, input, padded_input, delta>>

Next == Forward \/ Backward \/ Update

Spec == Init /\ [][Next]_vars

\* ------------------------------------------------------------------------
\* The kernel routines called on their own, on tensors of any rank from 1 to
\* 4: a run draws a tensor (call.args of the initial state) and makes one
\* call on it, recorded in call.
\* ------------------------------------------------------------------------
\* The shapes of the test tensors: every 3-D shape and every square 2-D
\* shape with sides up to maxdim, one shape of rank 1 and two of rank 4.
Shapes(maxdim) ==
  {<<n, n>> : n \in 1..maxdim}
    \cup ((1..maxdim) \X (1..maxdim) \X (1..MaxChannel))
    \cup {<<maxdim>>, <<1, 1, 1, 1>>, <<maxdim, maxdim, MaxChannel, 1>>}

KernelInit ==
  /\ LET new == ConvLayer_init(1, 1, 1, 1, 1, 1, <<0, 0>>, <<1, 1>>, 1)
     IN  /\ layer = new.layer
         /\ filters = new.filters
         /\ output = new.output
         /\ delta = new.delta
  /\ input = NoAttr
  /\ padded_input = NoAttr
  /\ \E shape \in Shapes(MaxIn), seed \in 0..MaxSeed :
       call = [op |-> "__init__", args |-> <<Pattern(shape, seed), seed>>,
               raised |-> "", value |-> None]
  /\ ncalls = 0

\* self._padding(x, zero_padding)
CallPadding ==
  /\ ncalls = 0
  /\ ncalls' = 1
  /\ \E zero_padding \in (0..MaxPad) \X (0..MaxPad) :
       LET x == call.args[1]
           r == _padding(x, zero_padding)
       IN  call' = [op |-> "_padding", args |-> <<x, zero_padding>>,
                    raised |-> r.raised, value |-> r.value]
  /\ UNCHANGED <<layer, filters, output, input, padded_input, delta>>

\* self._conv(x, w, o, filter_b, stride), o a 2-D buffer
CallConv ==
  /\ ncalls = 0
  /\ ncalls' = 1
  /\ \E fshape \in Shapes(MaxFilter),
        oshape \in (1..MaxFilter) \X (1..MaxFilter),
        filter_b \in 0..1, stride \in (1..MaxStride) \X (1..MaxStride) :
       LET x == call.args[1]
           seed == call.args[2]
           w == Pattern(fshape, seed)
           o == Pattern(oshape, seed + 1)
           r == _conv(x, w, o, filter_b, stride)
       IN  call' = [op |-> "_conv", args |-> <<x, w, o, filter_b, stride>>,
                    raised |-> r.raised, value |-> r.value]
  /\ UNCHANGED <<layer, filters, output, input, padded_input, delta>>

\* self.__expand_sensitive_map(m), m a 3-D map, in a layer of the given stride
CallExpand ==
  /\ ncalls = 0
  /\ ncalls' = 1
  /\ ndim(call.args[1]) = 3
  /\ \E stride \in (1..MaxStride) \X (1..MaxStride) :
       LET m == call.args[1]
       IN  call' = [op |-> "expand", args |-> <<m, stride>>, raised |-> "",
                    value |-> expand_sensitive_map(m, stride)]
  /\ UNCHANGED <<layer, filters, output, input, padded_input, delta>>

KernelNext == CallPadding \/ CallConv \/ CallExpand

KernelSpec == KernelInit /\ [][KernelNext]_vars

\* ------------------------------------------------------------------------
\* Properties of the kernel routines (checked under KernelSpec).
\* ------------------------------------------------------------------------
\* The sum of f over its whole domain.
RECURSIVE FnSum(_)
FnSum(f) ==
  IF DOMAIN f = {} THEN 0
  ELSE LET e == CHOOSE e \in DOMAIN f : TRUE
       IN  f[e] + FnSum([d \in DOMAIN f \ {e} |-> f[d]])

\* The cell of x at (h, w, c) when x is 3-D and at (h, w) when it is 2-D,
\* which stands for a single channel; a single channel serves every c.
At(x, h, w, c) ==
  IF ndim(x) = 2 THEN x.data[<<h, w>>]
  ELSE x.data[<<h, w, IF x.shape[3] = 1 THEN 0 ELSE c>>]

Channels(x) == IF ndim(x) = 2 THEN 1 ELSE x.shape[3]

\* The arguments of the _conv call recorded in call.
ConvFits(x, w, o, stride) ==
  /\ (o.shape[1] - 1) * stride[1] + w.shape[1] <= x.shape[1]
  /\ (o.shape[2] - 1) * stride[2] + w.shape[2] <= x.shape[2]

AllOnes(x) == \A i \in Idx(x.shape) : x.data[i] = 1

\* C2: correlate(input, filterW, output, bias, stride), on 2-D or 3-D input
\* and filter whose channel counts agree (or are 1), when every window reached
\* by output's shape and the stride fits inside the input: every output cell
\* (i,j) is the sum, over the filter_height x filter_width window starting at
\* (i*stride_h, j*stride_w) and over all channels, of input * filterW, plus
\* bias.  A 3x3x1 all-ones input with a 2x2x1 all-ones filter, bias 0 and
\* stride (1,1) gives a 2x2 output whose every cell is 4.
C2_ConvWindowSums ==
  call.op = "_conv" =>
    LET x == call.args[1]
        w == call.args[2]
        o == call.args[3]
        filter_b == call.args[4]
        stride == call.args[5]
        nch == Max(Channels(x), Channels(w))
    IN  /\ ( /\ ndim(x) \in {2, 3} /\ ndim(w) \in {2, 3}
             /\ (Channels(x) = Channels(w) \/ Channels(x) = 1 \/ Channels(w) = 1)
             /\ ConvFits(x, w, o, stride) )
           => /\ call.raised = ""
              /\ call.value.shape = o.shape
              /\ \A i \in 0..(o.shape[1] - 1), j \in 0..(o.shape[2] - 1) :
                   call.value.data[<<i, j>>] =
                     FnSum([t \in (0..(w.shape[1] - 1)) \X (0..(w.shape[2] - 1))
                                    \X (0..(nch - 1)) |->
                              At(x, i * stride[1] + t[1], j * stride[2] + t[2], t[3])
                              * At(w, t[1], t[2], t[3])])
                     + filter_b
        /\ ( /\ x.shape = <<3, 3, 1>> /\ AllOnes(x)
             /\ w.shape = <<2, 2, 1>> /\ AllOnes(w)
             /\ o.shape = <<2, 2>> /\ filter_b = 0 /\ stride = <<1, 1>> )
           => \A i \in Idx(<<2, 2>>) : call.value.data[i] = 4

\* A strided correlation over two channels whose windows all fit and which
\* wrote a non-zero cell with a bias.
C2_Witness ==
  /\ call.op = "_conv"
  /\ call.raised = ""
  /\ call.args[1].shape = <<3, 3, 2>>
  /\ call.args[2].shape = <<1, 2, 2>>
  /\ call.args[3].shape = <<2, 1>>
  /\ call.args[4] = 1
  /\ call.args[5] = <<2, 1>>
  /\ call.value # call.args[3]
  /\ \E i \in Idx(call.value.shape) : call.value.data[i] \notin {0, 1}

\* C6: pad(x, (0,0)) returns x unchanged; for (pad_h, pad_w) # (0,0) and x of
\* shape [H, W, C] (a 2-D x is a single channel) the result has shape
\* [H + 2*pad_h, W + 2*pad_w, C], its central H x W sub-tensor starting at
\* (pad_h, pad_w) equals x, and every other cell is zero.
C6_Padding ==
  call.op = "_padding" =>
    LET x == call.args[1]
        zp == call.args[2]
        H == x.shape[1]
        W == x.shape[2]
        C == Channels(x)
        v == call.value
    IN  /\ zp = <<0, 0>> => (call.raised = "" /\ v = x)
        /\ (zp # <<0, 0>> /\ ndim(x) \in {2, 3}) =>
             /\ call.raised = ""
             /\ v.shape = <<H + 2 * zp[1], W + 2 * zp[2], C>>
             /\ \A h \in 0..(H - 1), w \in 0..(W - 1), c \in 0..(C - 1) :
                  v.data[<<h + zp[1], w + zp[2], c>>] = At(x, h, w, c)
             /\ \A i \in Idx(v.shape) :
                  ( \/ i[1] < zp[1] \/ i[1] >= H + zp[1]
                    \/ i[2] < zp[2] \/ i[2] >= W + zp[2] ) => v.data[i] = 0

\* A padding on one axis only of a two-channel tensor with non-zero cells.
C6_Witness ==
  /\ call.op = "_padding"
  /\ call.raised = ""
  /\ call.args[2] = <<1, 0>>
  /\ call.args[1].shape = <<2, 3, 2>>
  /\ call.value.shape = <<4, 3, 2>>
  /\ \E i \in Idx(call.args[1].shape) : call.args[1].data[i] < 0

\* C7: expand(map, stride) of a map of shape [h, w, d] has shape
\* [(h-1)*stride_h + 1, (w-1)*stride_w + 1, d], holds map[i, j, :] at
\* [i*stride_h, j*stride_w, :] for all (i,j) and zero in every other cell;
\* with stride (1,1) it equals map.
C7_Expand ==
  call.op = "expand" =>
    LET m == call.args[1]
        stride == call.args[2]
        v == call.value
        h == m.shape[1]
        w == m.shape[2]
        d == m.shape[3]
        Images == {<<i * stride[1], j * stride[2], c>> :
                     i \in 0..(h - 1), j \in 0..(w - 1), c \in 0..(d - 1)}
    IN  /\ v.shape = <<(h - 1) * stride[1] + 1, (w - 1) * stride[2] + 1, d>>
        /\ \A i \in Idx(m.shape) :
             v.data[<<i[1] * stride[1], i[2] * stride[2], i[3]>>] = m.data[i]
        /\ \A i \in Idx(v.shape) \ Images : v.data[i] = 0
        /\ stride = <<1, 1>> => v = m

\* An expansion by different strides on the two axes that inserted zeros
\* between non-zero cells.
C7_Witness ==
  /\ call.op = "expand"
  /\ call.args[2] = <<2, 1>>
  /\ call.args[1].shape = <<2, 3, 1>>
  /\ call.value.shape = <<3, 3, 1>>
  /\ \A i \in Idx(call.args[1].shape) : call.args[1].data[i] # 0

\* Whether the call recorded in call was given a tensor whose rank is not 2
\* or 3.
BadRank ==
  \/ call.op = "_padding" /\ ndim(call.args[1]) \notin {2, 3}
  \/ call.op = "_conv" /\ ( \/ ndim(call.args[1]) \notin {2, 3}
                            \/ ndim(call.args[2]) \notin {2, 3} )

\* C8 as claimed: a tensor whose rank is not 2 or 3 makes padding and
\* correlation fail, for every padding amount including (0,0), and a failing
\* correlation has written no output cell.
C8_InvalidRankAlways ==
  BadRank => /\ call.raised = "ValueError"
             /\ call.op = "_conv" => call.value = call.args[3]

\* C8 as the code has it: a tensor whose rank is not 2 or 3 makes correlation
\* fail and makes padding fail when the padding amount is not (0,0), before
\* any output cell is written; pad(x, (0,0)) returns x unchanged whatever its
\* rank.
C8_InvalidRank ==
  BadRank =>
    IF call.op = "_padding" /\ call.args[2] = <<0, 0>>
    THEN call.raised = "" /\ call.value = call.args[1]
    ELSE /\ call.raised = "ValueError"
         /\ call.op = "_conv" => call.value = call.args[3]

\* A correlation given a 4-D filter and a buffer with non-zero cells: it
\* raised and left the buffer as it was.
C8_Witness ==
  /\ call.op = "_conv"
  /\ ndim(call.args[1]) = 3
  /\ ndim(call.args[2]) = 4
  /\ call.raised = "ValueError"
  /\ call.value = call.args[3]
  /\ \E i \in Idx(call.args[3].shape) : call.args[3].data[i] # 0

\* ------------------------------------------------------------------------
\* Properties of the layer (checked under Spec).
\* ------------------------------------------------------------------------
InputShape == <<layer.input_height, layer.input_width, layer.input_channel>>

\* The last call was a backward made after a forward.
AfterBackward == call.op = "backward" /\ HasAttr(padded_input)

\* The step from the unprimed to the primed state is a call of op.
Calls(op) == call'.op = op /\ ncalls' = ncalls + 1

\* C1: on every forward call, however many calls came before, forward returns
\* a tensor of shape [output_height, output_width, filter_num] with
\* output_height = floor((input_height + 2*pad_h - filter_height) / stride_h)
\* + 1 and output_width the same on the width axis.
C1_ForwardShape ==
  call.op = "forward" =>
    /\ call.raised = ""
    /\ call.value.shape =
         <<((layer.input_height + 2 * layer.zero_padding[1]
               - layer.filter_height) \div layer.stride[1]) + 1,
           ((layer.input_width + 2 * layer.zero_padding[2]
               - layer.filter_width) \div layer.stride[2]) + 1,
           layer.filter_num>>
    /\ output = call.value

\* A forward made after three other calls, on a padded non-square input
\* whose height the stride does not divide.
C1_Witness ==
  /\ call.op = "forward"
  /\ ncalls >= 4
  /\ layer.input_height = 3 /\ layer.input_width = 2
  /\ layer.filter_height = 2
  /\ layer.zero_padding = <<1, 1>>
  /\ layer.stride = <<2, 2>>
  /\ call.value.shape[1] = 2
  /\ \E k \in 1..Len(filters) : filters[k].W # initializer(filters[k].W.shape, k)

\* C3: for every valid geometry, non-square inputs included, backward called
\* after a forward completes and returns a tensor of shape [input_height,
\* input_width, input_channel], and the layer's delta has that shape.
C3_BackwardShape ==
  AfterBackward => /\ call.raised = ""
                   /\ call.value.shape = InputShape
                   /\ delta.shape = InputShape

\* The weight gradient of filter k (0-based) at cell j: the stride-(1,1)
\* correlation of channel j[3] of padded with slice k of expanded.
WeightGradient(padded, expanded, k, j) ==
  FnSum([t \in (0..(expanded.shape[1] - 1)) \X (0..(expanded.shape[2] - 1)) |->
           padded.data[<<j[1] + t[1], j[2] + t[2], j[3]>>]
           * expanded.data[<<t[1], t[2], k>>]])

\* C4: update() scales each filter's delta_W and delta_b by the learning rate
\* and then applies W <- W - delta_W, b <- b - delta_b: every weight becomes
\* its old value minus lr times the gradient held in delta_W, which after a
\* backward that returned is the gradient that backward computed, and a
\* weight whose gradient is positive strictly decreases.
C4_UpdateRule ==
  [][ Calls("update") =>
        \A k \in 1..Len(filters) :
          LET f == filters[k]
              g == filters'[k]
          IN  /\ g.delta_b = f.delta_b * layer.lr
              /\ g.b = f.b - layer.lr * f.delta_b
              /\ g.W.shape = f.W.shape
              /\ \A j \in Idx(f.W.shape) :
                   /\ g.delta_W.data[j] = f.delta_W.data[j] * layer.lr
                   /\ g.W.data[j] = f.W.data[j] - layer.lr * f.delta_W.data[j]
                   /\ f.delta_W.data[j] > 0 => g.W.data[j] < f.W.data[j]
                   /\ (call.op = "backward" /\ call.raised = "") =>
                        g.W.data[j] = f.W.data[j] - layer.lr *
                          WeightGradient(padded_input,
                            expand_sensitive_map(call.args[1], layer.stride),
                            k - 1, j)
    ]_vars

\* An update, made right after a forward and a backward with learning rate
\* 2, that lowered a weight by twice its positive gradient.
C4_Witness ==
  /\ call.op = "update"
  /\ ncalls = 3
  /\ layer.lr = 2
  /\ HasAttr(padded_input)
  /\ \E k \in 1..Len(filters) : \E j \in Idx(filters[k].W.shape) :
       /\ filters[k].delta_W.data[j] > 0
       /\ filters[k].W.data[j] =
            initializer(filters[k].W.shape, k).data[j] - filters[k].delta_W.data[j]

\* Whether every filter holds the gradients of backward(g) alone: delta_b the
\* sum of all entries of slice k of the stride-expanded g, and delta_W[:,:,c]
\* the stride-(1,1) correlation of padded_input[:,:,c] with expanded g[:,:,k].
GradientsOf(g) ==
  LET expanded == expand_sensitive_map(g, layer.stride)
  IN  \A k \in 1..Len(filters) :
        /\ filters[k].delta_b =
             FnSum([t \in (0..(expanded.shape[1] - 1))
                            \X (0..(expanded.shape[2] - 1)) |->
                      expanded.data[<<t[1], t[2], k - 1>>]])
        /\ filters[k].delta_W.shape =
             <<layer.filter_height, layer.filter_width, layer.input_channel>>
        /\ \A j \in Idx(filters[k].delta_W.shape) :
             filters[k].delta_W.data[j] =
               WeightGradient(padded_input, expanded, k - 1, j)

\* C5: after any sequence of forward/backward/update calls, immediately after
\* backward(g) each filter k's gradients are overwritten, not accumulated:
\* delta_b is the sum of all entries of slice k of the stride-expanded g and
\* delta_W[:,:,c] is the stride-(1,1) correlation of padded_input[:,:,c] of
\* the most recent forward with expanded g[:,:,k], whatever delta_W and
\* delta_b held before.
C5_GradientsOverwritten == AfterBackward => GradientsOf(call.args[1])

\* The same of the calls that return: it holds, so C5 fails only where
\* backward raises.
GradientsOverwrittenOnReturn ==
  (AfterBackward /\ call.raised = "") => GradientsOf(call.args[1])

\* A backward of a strided two-filter layer that returned after an earlier
\* backward and an update had left scaled gradients and changed weights.
GradientsOverwrittenWitness ==
  /\ AfterBackward
  /\ call.raised = ""
  /\ ncalls >= 4
  /\ layer.filter_num = 2
  /\ layer.stride = <<2, 2>>
  /\ filters[2].delta_b # 0
  /\ \E j \in Idx(filters[2].W.shape) :
       /\ filters[2].delta_W.data[j] # 0
       /\ filters[2].W.data[j] # initializer(filters[2].W.shape, 2).data[j]

\* The input-gradient contributions of all filters to cell j for the map g,
\* as backward computes them from the layer's state.
Contributions(g, j) ==
  LET expanded == expand_sensitive_map(g, layer.stride)
      padded_delta_map == _padding(expanded, BackwardPadding(layer, expanded)).value
  IN  SumSeq([k \in 1..Len(filters) |->
                DeltaA(layer, padded_delta_map, RotWeights(filters[k].W),
                       k - 1).data[j]])

\* What a backward(g) that adds every filter's contribution to the buffer and
\* multiplies it by the activator derivative at the last forward input leaves
\* in the buffer, and returns.
Accumulated(g) ==
  /\ call'.raised = ""
  /\ call'.value = delta'
  /\ delta'.shape = delta.shape
  /\ \A j \in Idx(delta.shape) :
       delta'.data[j] = (delta.data[j] + Contributions(g, j))
                        * activator_backward(input).data[j]

\* C9: the input-gradient buffer is zeros at construction and never reset:
\* no other call changes it, and each backward call (after a forward) adds
\* every filter's contribution to the buffer's contents, then multiplies the
\* whole buffer by the activator derivative at the last forward input, and
\* returns the buffer, so that what it returns depends on the earlier
\* backward calls.
C9_DeltaAccumulates ==
  [][ /\ ncalls = 0 => \A j \in Idx(delta.shape) : delta.data[j] = 0
      /\ IF Calls("backward") /\ HasAttr(padded_input)
         THEN Accumulated(call'.args[1])
         ELSE delta' = delta
    ]_vars

\* The same of the calls that return: it holds, so C9 fails only where
\* backward raises.
DeltaAccumulatesOnReturn ==
  [][ /\ ncalls = 0 => \A j \in Idx(delta.shape) : delta.data[j] = 0
      /\ IF Calls("backward") /\ call'.raised = ""
         THEN Accumulated(call'.args[1])
         ELSE delta' = delta
    ]_vars

\* A backward whose returned delta differs from what the same call returns
\* on a buffer of zeros: it depends on the earlier backward calls.
DeltaAccumulatesWitness ==
  /\ AfterBackward
  /\ call.raised = ""
  /\ call.value = delta
  /\ call.value #
       ConvLayer_backward(layer, filters, np_zeros(delta.shape), input,
                          padded_input, call.args[1]).value

\* C10: in backward, for every valid geometry, the padding pad' computed for
\* the stride-expanded gradient gives expanded_height + 2*pad'_h -
\* filter_height + 1 = input_height, likewise for the width, so that the
\* stride-(1,1) correlation writes every cell of the input_height x
\* input_width per-filter input-gradient buffer.
C10_BackwardPadding ==
  AfterBackward =>
    LET expanded == expand_sensitive_map(call.args[1], layer.stride)
        zp == BackwardPadding(layer, expanded)
    IN  /\ expanded.shape[1] + 2 * zp[1] - layer.filter_height + 1
             = layer.input_height
        /\ expanded.shape[2] + 2 * zp[2] - layer.filter_width + 1
             = layer.input_width
        /\ \A i \in 0..(layer.input_height - 1), j \in 0..(layer.input_width - 1) :
             ConvWrites(expanded.shape[1] + 2 * zp[1],
                        expanded.shape[2] + 2 * zp[2],
                        layer.filter_height, layer.filter_width, <<1, 1>>, i, j)

====
